---- MODULE Spec2Model ----
(***************************************************************************)
(* A model of the forex calculator's trade store and calculator.           *)
(*                                                                         *)
(*   TradeDB          (trade_tracker_1.py)  SQLite ledger + query cache    *)
(*   TradeCalculator  (trade_tracker_1.py)  pip / USD arithmetic           *)
(*   pip_value_usd    (trade_tracker.py)    the CSV variant's arithmetic   *)
(*   TradeTrackerApp  (both files)          the handlers of the window     *)
(*                                                                         *)
(* Five specifications share the variables:                                *)
(*   Spec      calls on one TradeDB made one after the other               *)
(*   SpecConc  get_trades in background threads beside the main thread's   *)
(*             add_trade / delete_trade, one statement at a time           *)
(*   SpecCalc  the calculator functions applied to drawn inputs            *)
(*   SpecApp   the window: Save Trade, Delete Trade, Refresh, the loading  *)
(*             thread and its dashboard, and the Save Trade of the CSV app *)
(*   SpecPanel the input panel of both programs: the instrument box, the   *)
(*             contract size and quote rate fields, Calculate, Save Trade  *)
(*             and Clear                                                   *)
(***************************************************************************)
EXTENDS Integers, Sequences, FiniteSets, TLC

\* ------------------------------------------------------------------ bounds
MaxAdds == 3       \* add_trade calls that reach the INSERT
MaxOps == 3        \* TradeDB calls in one run
MaxTime == 5       \* the clock runs 0..MaxTime (minutes)
ClockStep == 1     \* minutes between two readings of the clock
MaxRate == 3       \* quote-to-USD rates 0..MaxRate
MaxThreads == 2    \* background threads alive at once
MaxSaves == 2      \* presses of Save Trade in one run
MaxLoads == 2      \* loading threads waiting at once
MaxPanelSaves == 1 \* trades saved from the input panel in one run

\* ---------------------------------------------------------------- constants
None == "None"

\* timedelta(minutes=5)
cache_expiry == 5

\* Python floats are modelled as exact fractions [n, d] in lowest terms with
\* d > 0; rounding error is outside the model.  float("nan") is [0, 0], and
\* every operation on it gives it back.
RECURSIVE GCD(_, _)
GCD(a, b) == IF b = 0 THEN a ELSE GCD(b, a % b)

Abs(a) == IF a < 0 THEN -a ELSE a

NaN == [n |-> 0, d |-> 0]

Rat(n, d) ==
    IF d = 0 THEN NaN
    ELSE LET g == GCD(Abs(n), Abs(d))
             sgn == IF d < 0 THEN -1 ELSE 1
         IN  [n |-> (sgn * n) \div g, d |-> (sgn * d) \div g]

Zero == Rat(0, 1)

RatMul(x, y) == Rat(x.n * y.n, x.d * y.d)

\* x / y for y # 0
RatDiv(x, y) == Rat(x.n * y.d, x.d * y.n)

RatAdd(x, y) == Rat(x.n * y.d + y.n * x.d, x.d * y.d)

RatSub(x, y) == Rat(x.n * y.d - y.n * x.d, x.d * y.d)

RatNeg(x) == Rat(-x.n, x.d)

\* x < y for numbers other than nan
RatLess(x, y) == x.n * y.d < y.n * x.d

\* a Python None in a place that otherwise holds a float
Absent == [absent |-> TRUE]

IsNone(x) == "absent" \in DOMAIN x

\* bool(x) of a float or None: None and 0.0 are false, nan is true
Truthy(x) == ~IsNone(x) /\ x # Zero

\* the INSTRUMENTS table
INSTRUMENTS ==
    [ XAUUSD    |-> [pip |-> Rat(1, 100),   contract |-> Rat(100, 1),    quote_usd |-> TRUE],
      BTCUSD    |-> [pip |-> Rat(1, 1),     contract |-> Rat(1, 1),      quote_usd |-> TRUE],
      US30      |-> [pip |-> Rat(1, 1),     contract |-> Rat(1, 1),      quote_usd |-> TRUE],
      NASDAQ100 |-> [pip |-> Rat(1, 1),     contract |-> Rat(1, 1),      quote_usd |-> TRUE],
      USDJPY    |-> [pip |-> Rat(1, 100),   contract |-> Rat(100000, 1), quote_usd |-> FALSE],
      GBPJPY    |-> [pip |-> Rat(1, 100),   contract |-> Rat(100000, 1), quote_usd |-> FALSE],
      AUDUSD    |-> [pip |-> Rat(1, 10000), contract |-> Rat(100000, 1), quote_usd |-> TRUE] ]

InstrumentNames == DOMAIN INSTRUMENTS

\* the (instrument, direction) pairs the ledger runs draw trades from
TradeKinds == {<<"XAUUSD", "Long">>, <<"USDJPY", "Long">>, <<"USDJPY", "Short">>}

VARIABLES
    trades,         \* rows of table trades as this connection sees them
    seq,            \* sqlite_sequence: the largest id AUTOINCREMENT has given
    total_changes,  \* conn.total_changes
    cache,          \* self._cache: cache_key -> [timestamp, data]
    now,            \* datetime.now()
    nops,           \* TradeDB calls made so far
    last,           \* the call that has just returned (or raised)
    added_ids,      \* the ids add_trade has returned, in call order
    stored,         \* what get_trades has stored since the last add/delete call
    thr,            \* SpecConc: the background threads inside get_trades
    wr,             \* SpecConc: the main thread inside add_trade / delete_trade
    calc,           \* SpecCalc: a calculator function, its inputs and outcome
    app             \* SpecApp: the window's fields, dashboard cards and last handler

vars == <<trades, seq, total_changes, cache, now, nops, last,
          added_ids, stored, thr, wr, calc, app>>

\* ------------------------------------------------------------------ helpers
Range(s) == {s[i] : i \in DOMAIN s}

Min(a, b) == IF a < b THEN a ELSE b

Take(s, n) == SubSeq(s, 1, Min(n, Len(s)))

MaxId(tr) == IF tr = {} THEN 0 ELSE CHOOSE m \in {r.id : r \in tr} : \A r \in tr : r.id <= m

NoCall == [op |-> "none"]

\* ------------------------------------------------------------ TradeDB: SQL
\* filters is None or a dict; a dict is the sequence of its items
NoFilters == [none |-> TRUE, items |-> <<>>]

Dict(items) == [none |-> FALSE, items |-> items]

FilterSet ==
    { NoFilters,
      Dict(<< <<"instrument", None>> >>),
      Dict(<< <<"instrument", "USDJPY">>, <<"direction", "Long">> >>),
      Dict(<< <<"direction", "Short">>, <<"instrument", None>> >>) }

\* the callers pass 200 and 50; here a limit the ledger can exceed, and one
\* it can only just reach
Limits == {1, 2}

\* a cache key that leaves the filters out
CacheKeyLimitOnly(limit, filters) == <<"trades", limit, NoFilters>>

\* cache_key = f"trades_{limit}_{filters}"
CacheKey(limit, filters) == <<"trades", limit, filters>>

\* get_trades without `if v is not None`
ConditionsWithNone(filters) ==
    IF filters.none \/ filters.items = <<>>
    THEN {}
    ELSE Range(filters.items)

\* the (column, value) pairs that reach the WHERE clause: items whose value
\* is not None, and none at all when filters is None or empty
Conditions(filters) ==
    IF filters.none \/ filters.items = <<>>
    THEN {}
    ELSE {filters.items[i] : i \in {j \in DOMAIN filters.items : filters.items[j][2] # None}}

Column(r, k) == IF k = "instrument" THEN r.instrument ELSE r.direction

\* WHERE c1 = ? AND c2 = ? ...
Where(tr, filters) == {r \in tr : \A c \in Conditions(filters) : Column(r, c[1]) = c[2]}

\* ORDER BY timestamp DESC: every order of the rows that is descending in
\* timestamp (SQLite leaves the order of equal timestamps open)
OrderByTimestampDesc(rows) ==
    {s \in [1..Cardinality(rows) -> rows] :
        /\ \A i, j \in DOMAIN s : i # j => s[i] # s[j]
        /\ \A i, j \in DOMAIN s : i < j => s[i].timestamp >= s[j].timestamp}

\* SELECT * FROM trades [WHERE ...] ORDER BY timestamp DESC LIMIT ?
Select(tr, limit, filters) ==
    {Take(s, limit) : s \in OrderByTimestampDesc(Where(tr, filters))}

\* id INTEGER PRIMARY KEY without AUTOINCREMENT: one more than the largest id
\* now in the table
RowidAfterMax(tr, sq) == MaxId(tr) + 1

\* id INTEGER PRIMARY KEY AUTOINCREMENT: one more than the largest id ever given
Lastrowid(tr, sq) == sq + 1

\* DELETE FROM trades WHERE id <= ?
DeleteUpToId(tr, trade_id) == {r \in tr : r.id > trade_id}

\* DELETE FROM trades WHERE id = ?
DeleteWhereId(tr, trade_id) == {r \in tr : r.id # trade_id}

\* a _clear_cache that leaves the dictionary as it is
keep_cache == cache

\* self._cache = {}
clear_cache == << >>

\* an entry exactly as old as the expiry still counts as fresh
FreshInclusive(entry, t) == t - entry.timestamp <= cache_expiry

\* the comparison the wrong way round
FreshFlipped(entry, t) == t - entry.timestamp > cache_expiry

\* datetime.now() - entry['timestamp'] < self._cache_expiry
Fresh(entry, t) == t - entry.timestamp < cache_expiry

\* return self.conn.total_changes > 0
DeleteResult(tc) == tc > 0

\* --------------------------------------------------------- TradeDB: calls
\* What a call leaves for the properties to look at: its arguments, its
\* result, and for add/delete the ledger and cache it started from.
Before == [trades |-> trades, cache |-> cache]

\* add_trade(trade_data).  The persistence layer lets the call through, or
\* raises in cur.execute, or raises in the commit on leaving `with self.conn`
\* (the connection then rolls the transaction back; total_changes keeps
\* counting the rolled-back row).
add_trade(instrument, direction, outcome) ==
    LET trade_id == Lastrowid(trades, seq)
        rec == [id |-> trade_id, timestamp |-> now,
                instrument |-> instrument, direction |-> direction]
    IN  /\ nops < MaxOps
        /\ seq < MaxAdds
        /\ nops' = nops + 1
        /\ stored' = << >>
        /\ UNCHANGED <<now, thr, wr, calc, app>>
        /\ CASE outcome = "ok" ->
                  /\ trades' = trades \cup {rec}
                  /\ seq' = trade_id
                  /\ total_changes' = total_changes + 1
                  /\ cache' = clear_cache
                  /\ added_ids' = Append(added_ids, trade_id)
                  /\ last' = [op |-> "add", ok |-> TRUE, rec |-> rec,
                              ret |-> trade_id, before |-> Before]
             [] outcome = "execute" ->
                  /\ UNCHANGED <<trades, seq, total_changes, cache, added_ids>>
                  /\ last' = [op |-> "add", ok |-> FALSE, rec |-> rec,
                              before |-> Before]
             [] outcome = "commit" ->
                  /\ UNCHANGED <<trades, seq, added_ids>>
                  /\ total_changes' = total_changes + 1
                  /\ cache' = clear_cache
                  /\ last' = [op |-> "add", ok |-> FALSE, rec |-> rec,
                              before |-> Before]

\* whether the call before this get_trades was an add_trade that returned,
\* the record it added, and whether this query was cached when it began
AfterAdd(cache_key) ==
    IF last.op = "add" /\ last.ok
    THEN [yes |-> TRUE, rec |-> last.rec,
          was_cached |-> cache_key \in DOMAIN last.before.cache]
    ELSE [yes |-> FALSE]

\* get_trades(limit, filters)
get_trades(limit, filters, outcome) ==
    LET cache_key == CacheKey(limit, filters)
        hit == /\ cache_key \in DOMAIN cache
               /\ Fresh(cache[cache_key], now)
        call == [op |-> "get", limit |-> limit, filters |-> filters,
                 at |-> now, after_add |-> AfterAdd(cache_key),
                 stored |-> stored]
    IN  /\ nops < MaxOps
        /\ nops' = nops + 1
        /\ UNCHANGED <<trades, seq, total_changes, now, added_ids, thr, wr, calc, app>>
        /\ IF hit
           THEN /\ outcome = "ok"
                /\ UNCHANGED <<cache, stored>>
                /\ last' = call @@ [ok |-> TRUE, ret |-> cache[cache_key].data,
                                    db_read |-> FALSE]
           ELSE \/ /\ outcome = "ok"
                   /\ \E results \in Select(trades, limit, filters) :
                        LET entry == [timestamp |-> now, data |-> results]
                        IN  /\ cache' = (cache_key :> entry) @@ cache
                            /\ stored' = (cache_key :> entry) @@ stored
                            /\ last' = call @@ [ok |-> TRUE, ret |-> results,
                                                db_read |-> TRUE]
                \/ /\ outcome = "execute"
                   /\ UNCHANGED <<cache, stored>>
                   /\ last' = call @@ [ok |-> FALSE, db_read |-> TRUE]

\* delete_trade(trade_id)
delete_trade(trade_id, outcome) ==
    LET remaining == DeleteWhereId(trades, trade_id)
        changes == Cardinality(trades) - Cardinality(remaining)
    IN  /\ nops < MaxOps
        /\ nops' = nops + 1
        /\ stored' = << >>
        /\ UNCHANGED <<seq, now, added_ids, thr, wr, calc, app>>
        /\ CASE outcome = "ok" ->
                  /\ trades' = remaining
                  /\ total_changes' = total_changes + changes
                  /\ cache' = clear_cache
                  /\ last' = [op |-> "delete", ok |-> TRUE, id |-> trade_id,
                              ret |-> DeleteResult(total_changes'),
                              before |-> Before]
             [] outcome = "execute" ->
                  /\ UNCHANGED <<trades, total_changes, cache>>
                  /\ last' = [op |-> "delete", ok |-> FALSE, id |-> trade_id,
                              before |-> Before]
             [] outcome = "commit" ->
                  /\ trades' = trades
                  /\ total_changes' = total_changes + changes
                  /\ cache' = clear_cache
                  /\ last' = [op |-> "delete", ok |-> FALSE, id |-> trade_id,
                              before |-> Before]

\* wall-clock time passes between calls
Tick ==
    /\ now + ClockStep <= MaxTime
    /\ nops < MaxOps
    /\ now' = now + ClockStep
    /\ UNCHANGED <<trades, seq, total_changes, cache, nops, last,
                   added_ids, stored, thr, wr, calc, app>>

Outcomes == {"ok", "execute", "commit"}

AddTrade == \E k \in TradeKinds, o \in Outcomes : add_trade(k[1], k[2], o)

GetTrades == \E l \in Limits, f \in FilterSet, o \in {"ok", "execute"} : get_trades(l, f, o)

\* ids that were given out, and one that never was
DeleteTrade == \E id \in 1..(seq + 1), o \in Outcomes : delete_trade(id, o)

Threads == 1..MaxThreads

IdleThreads == [t \in Threads |-> [pc |-> "idle"]]

IdleWriter == [pc |-> "idle"]

NoCalc == [stage |-> "none"]

\* no window has been built
NoApp == [stage |-> "none"]

\* TradeDB.__init__ on a new database file
Init ==
    /\ trades = {}
    /\ seq = 0
    /\ total_changes = 0
    /\ cache = << >>
    /\ now = 0
    /\ nops = 0
    /\ last = NoCall
    /\ added_ids = << >>
    /\ stored = << >>
    /\ thr = IdleThreads
    /\ wr = IdleWriter
    /\ calc = NoCalc
    /\ app = NoApp

Next == AddTrade \/ GetTrades \/ DeleteTrade \/ Tick

Spec == Init /\ [][Next]_vars

\* ------------------------------------------------- TradeDB under threads
\* load_trades_async, show_profit_chart and show_instrument_chart each start
\* a thread that calls get_trades; the main thread calls add_trade
\* (save_trade) and delete_trade (delete_selected).  All share one
\* connection (check_same_thread=False) and one _cache, with no lock, so the
\* statements of the calls interleave.  The persistence layer is taken not
\* to fail here.

\* get_trades(limit=200), get_trades(limit=50) as the threads call it
ThreadQueries == {<<2, NoFilters>>, <<1, NoFilters>>}

ThreadKey(t) == CacheKey(thr[t].limit, thr[t].filters)

Goto(t, pc) == thr' = [thr EXCEPT ![t].pc = pc]

Finish(t) == thr' = [thr EXCEPT ![t] = [pc |-> "idle"]]

\* self._cache[cache_key] on a dictionary that no longer has the key
RaiseKeyError(t) ==
    /\ Finish(t)
    /\ last' = [op |-> "get", ok |-> FALSE, limit |-> thr[t].limit,
                filters |-> thr[t].filters, error |-> "KeyError"]

\* threading.Thread(target=...).start()
StartThread(t) ==
    /\ thr[t].pc = "idle"
    /\ nops < MaxOps
    /\ nops' = nops + 1
    /\ \E q \in ThreadQueries :
          thr' = [thr EXCEPT ![t] = [pc |-> "member", limit |-> q[1], filters |-> q[2]]]
    /\ UNCHANGED <<trades, seq, total_changes, cache, now, last, added_ids,
                   stored, wr, calc, app>>

\* if cache_key in self._cache:
GetMember(t) ==
    /\ thr[t].pc = "member"
    /\ IF ThreadKey(t) \in DOMAIN cache THEN Goto(t, "expiry") ELSE Goto(t, "select")
    /\ UNCHANGED <<trades, seq, total_changes, cache, now, nops, last,
                   added_ids, stored, wr, calc, app>>

\* if datetime.now() - self._cache[cache_key]['timestamp'] < self._cache_expiry:
GetExpiry(t) ==
    /\ thr[t].pc = "expiry"
    /\ IF ThreadKey(t) \notin DOMAIN cache
       THEN RaiseKeyError(t)
       ELSE /\ IF Fresh(cache[ThreadKey(t)], now) THEN Goto(t, "hit") ELSE Goto(t, "select")
            /\ last' = last
    /\ UNCHANGED <<trades, seq, total_changes, cache, now, nops,
                   added_ids, stored, wr, calc, app>>

\* return self._cache[cache_key]['data']
GetHit(t) ==
    /\ thr[t].pc = "hit"
    /\ IF ThreadKey(t) \notin DOMAIN cache
       THEN RaiseKeyError(t)
       ELSE /\ Finish(t)
            /\ last' = [op |-> "get", ok |-> TRUE, limit |-> thr[t].limit,
                        filters |-> thr[t].filters, ret |-> cache[ThreadKey(t)].data,
                        db_read |-> FALSE]
    /\ UNCHANGED <<trades, seq, total_changes, cache, now, nops,
                   added_ids, stored, wr, calc, app>>

\* with self.conn: cur.execute(query, params) ... results = [...]
\* (the shared connection shows the rows of a transaction still open)
GetSelect(t) ==
    /\ thr[t].pc = "select"
    /\ \E results \in Select(trades, thr[t].limit, thr[t].filters) :
          thr' = [thr EXCEPT ![t] = [pc |-> "store", limit |-> thr[t].limit,
                                     filters |-> thr[t].filters, results |-> results]]
    /\ UNCHANGED <<trades, seq, total_changes, cache, now, nops, last,
                   added_ids, stored, wr, calc, app>>

\* self._cache[cache_key] = {'timestamp': datetime.now(), 'data': results}
\* return results
GetStore(t) ==
    /\ thr[t].pc = "store"
    /\ cache' = (ThreadKey(t) :> [timestamp |-> now, data |-> thr[t].results]) @@ cache
    /\ Finish(t)
    /\ last' = [op |-> "get", ok |-> TRUE, limit |-> thr[t].limit,
                filters |-> thr[t].filters, ret |-> thr[t].results,
                db_read |-> TRUE]
    /\ UNCHANGED <<trades, seq, total_changes, now, nops, added_ids, stored,
                   wr, calc, app>>

\* add_trade: cur.execute(INSERT ...); trade_id = cur.lastrowid
AddExecute(instrument, direction) ==
    LET trade_id == Lastrowid(trades, seq)
        rec == [id |-> trade_id, timestamp |-> now,
                instrument |-> instrument, direction |-> direction]
    IN  /\ wr.pc = "idle"
        /\ nops < MaxOps
        /\ seq < MaxAdds
        /\ nops' = nops + 1
        /\ trades' = trades \cup {rec}
        /\ seq' = trade_id
        /\ total_changes' = total_changes + 1
        /\ wr' = [pc |-> "clear", op |-> "add", ret |-> trade_id]
        /\ UNCHANGED <<cache, now, last, added_ids, stored, thr, calc, app>>

\* delete_trade: self.conn.execute(DELETE ...)
DeleteExecute(trade_id) ==
    LET remaining == DeleteWhereId(trades, trade_id)
    IN  /\ wr.pc = "idle"
        /\ nops < MaxOps
        /\ nops' = nops + 1
        /\ trades' = remaining
        /\ total_changes' = total_changes + Cardinality(trades) - Cardinality(remaining)
        /\ wr' = [pc |-> "clear", op |-> "delete", ret |-> FALSE]
        /\ UNCHANGED <<seq, cache, now, last, added_ids, stored, thr, calc, app>>

\* self._clear_cache()
WriteClear ==
    /\ wr.pc = "clear"
    /\ cache' = clear_cache
    /\ wr' = [wr EXCEPT !.pc = "return"]
    /\ UNCHANGED <<trades, seq, total_changes, now, nops, last, added_ids,
                   stored, thr, calc, app>>

\* return trade_id / return self.conn.total_changes > 0, and the commit on
\* leaving `with self.conn`
WriteReturn ==
    /\ wr.pc = "return"
    /\ wr' = IdleWriter
    /\ IF wr.op = "add"
       THEN /\ added_ids' = Append(added_ids, wr.ret)
            /\ last' = [op |-> "add", ok |-> TRUE, ret |-> wr.ret]
       ELSE /\ added_ids' = added_ids
            /\ last' = [op |-> "delete", ok |-> TRUE,
                        ret |-> DeleteResult(total_changes)]
    /\ UNCHANGED <<trades, seq, total_changes, cache, now, nops, stored,
                   thr, calc, app>>

Reader == \E t \in Threads :
    StartThread(t) \/ GetMember(t) \/ GetExpiry(t) \/ GetHit(t) \/ GetSelect(t) \/ GetStore(t)

Writer ==
    \/ \E k \in TradeKinds : AddExecute(k[1], k[2])
    \/ \E id \in 1..(seq + 1) : DeleteExecute(id)
    \/ WriteClear
    \/ WriteReturn

NextConc == Reader \/ Writer \/ Tick

SpecConc == Init /\ [][NextConc]_vars

\* ------------------------------------------------------------- calculator
Returns(v) == [raised |-> FALSE, value |-> v]

Raises(e) == [raised |-> TRUE, error |-> e]

\* trade_tracker.py: pip_value_usd(pip_size, contract_size, quote_usd, quote_to_usd_rate)
pip_value_usd(pip_size, contract_size, quote_usd, quote_to_usd_rate) ==
    LET base == RatMul(pip_size, contract_size)
    IN  IF quote_usd
        THEN Returns(base)
        ELSE IF quote_to_usd_rate = Zero
             THEN Returns(base)
             ELSE Returns(RatDiv(base, quote_to_usd_rate))

\* trade_tracker_1.py: TradeCalculator.pip_value_usd(pip_size, contract_size,
\* quote_usd, quote_to_usd_rate)
TradeCalculator_pip_value_usd(pip_size, contract_size, quote_usd, quote_to_usd_rate) ==
    LET base == RatMul(pip_size, contract_size)
    IN  IF quote_usd
        THEN Returns(base)
        ELSE IF quote_to_usd_rate = Zero
             THEN Raises("ZeroDivisionError")
             ELSE Returns(RatDiv(base, quote_to_usd_rate))

Directions == {"Long", "Short"}

\* calc_pips without the direction: the pips of a long position always
calc_pips_undirected(entry, price, pip_size, direction) ==
    IF pip_size = Zero
    THEN Raises("ZeroDivisionError")
    ELSE Returns(RatDiv(RatSub(price, entry), pip_size))

\* trade_tracker.py: calc_pips(entry, price, pip_size, direction), its
\* arguments floats, so that float() gives them back
calc_pips(entry, price, pip_size, direction) ==
    IF pip_size = Zero
    THEN Raises("ZeroDivisionError")
    ELSE IF direction = "Long"
         THEN Returns(RatDiv(RatSub(price, entry), pip_size))
         ELSE Returns(RatDiv(RatSub(entry, price), pip_size))

\* TradeCalculator.calc_pips with the two directions exchanged
TradeCalculator_calc_pips_reversed(entry, price, pip_size, direction) ==
    IF pip_size = Zero
    THEN Raises("ZeroDivisionError")
    ELSE IF direction = "Long"
         THEN Returns(RatDiv(RatSub(entry, price), pip_size))
         ELSE Returns(RatDiv(RatSub(price, entry), pip_size))

\* trade_tracker_1.py: TradeCalculator.calc_pips(entry, price, pip_size, direction)
TradeCalculator_calc_pips(entry, price, pip_size, direction) ==
    IF pip_size = Zero
    THEN Raises("ZeroDivisionError")
    ELSE IF direction = "Long"
         THEN Returns(RatDiv(RatSub(price, entry), pip_size))
         ELSE Returns(RatDiv(RatSub(entry, price), pip_size))

\* usd_from_pips without the lot size
usd_from_pips_one_lot(pips, pip_value_per_lot, lots) ==
    RatMul(pips, pip_value_per_lot)

\* trade_tracker.py: usd_from_pips(pips, pip_value_per_lot, lots)
usd_from_pips(pips, pip_value_per_lot, lots) ==
    RatMul(RatMul(pips, pip_value_per_lot), lots)

\* trade_tracker_1.py: TradeCalculator.usd_from_pips(pips, pip_value_per_lot, lots)
TradeCalculator_usd_from_pips(pips, pip_value_per_lot, lots) ==
    RatMul(RatMul(pips, pip_value_per_lot), lots)

\* trade_tracker.py: price_from_usd_target(entry, direction, usd_target,
\* pip_size, contract_size, quote_usd, quote_rate, lots)
price_from_usd_target(entry, direction, usd_target, pip_size, contract_size, quote_usd, quote_rate, lots) ==
    LET pip_val == pip_value_usd(pip_size, contract_size, quote_usd, quote_rate)
    IN  IF pip_val.raised
        THEN pip_val
        ELSE IF pip_val.value = Zero \/ lots = Zero
             THEN Returns(Absent)
             ELSE LET pips_needed == RatDiv(usd_target, RatMul(pip_val.value, lots))
                      price_diff == RatMul(pips_needed, pip_size)
                  IN  IF direction = "Long"
                      THEN Returns(RatAdd(entry, price_diff))
                      ELSE Returns(RatSub(entry, price_diff))

\* trade_tracker_1.py: TradeCalculator.price_from_usd_target(entry, direction,
\* usd_target, pip_size, contract_size, quote_usd, quote_rate, lots)
TradeCalculator_price_from_usd_target(entry, direction, usd_target, pip_size, contract_size, quote_usd, quote_rate, lots) ==
    LET pip_val == TradeCalculator_pip_value_usd(pip_size, contract_size,
                                                 quote_usd, quote_rate)
    IN  IF pip_val.raised
        THEN pip_val
        ELSE IF pip_val.value = Zero \/ lots = Zero
             THEN Returns(Absent)
             ELSE LET pips_needed == RatDiv(usd_target, RatMul(pip_val.value, lots))
                      price_diff == RatMul(pips_needed, pip_size)
                  IN  IF direction = "Long"
                      THEN Returns(RatAdd(entry, price_diff))
                      ELSE Returns(RatSub(entry, price_diff))

\* the contract sizes of the table
ContractSizes == {INSTRUMENTS[i].contract : i \in InstrumentNames}

\* the inputs: an instrument of the table, a contract size (its own or an
\* override) and a quote-to-USD rate
CalcInputs ==
    { [stage |-> "in", instrument |-> i,
       pip_size |-> INSTRUMENTS[i].pip,
       contract_size |-> c,
       quote_usd |-> INSTRUMENTS[i].quote_usd,
       quote_to_usd_rate |-> Rat(r, 1)] :
         i \in InstrumentNames, c \in ContractSizes, r \in 0..MaxRate }

\* the instruments, prices, sizes and targets the calculator is applied to:
\* the gold and yen rows of the table, a pip size and a contract size of the
\* row or zero, nan among the prices, and a zero lot size
TradeInstruments == {"XAUUSD", "USDJPY"}

TradeInputs ==
    { [stage |-> "in", instrument |-> i,
       pip_size |-> p,
       contract_size |-> c,
       quote_usd |-> INSTRUMENTS[i].quote_usd,
       quote_to_usd_rate |-> r,
       entry |-> e, price |-> x, direction |-> d,
       lots |-> l, usd_target |-> u] :
         i \in TradeInstruments,
         p \in {INSTRUMENTS[j].pip : j \in TradeInstruments} \cup {Zero, NaN},
         c \in {INSTRUMENTS[j].contract : j \in TradeInstruments} \cup {Zero},
         r \in {Zero, Rat(150, 1)},
         e \in {Rat(150, 1), Rat(1900, 1), NaN},
         x \in {Rat(301, 2), Rat(1895, 1), Rat(150, 1), NaN},
         d \in Directions,
         l \in {Zero, Rat(1, 1), Rat(1, 2)},
         u \in {Rat(100, 1), Rat(-500, 1)} }

\* the function of one implementation
CalcPips(impl, entry, price, pip_size, direction) ==
    IF impl = "trade_tracker"
    THEN calc_pips(entry, price, pip_size, direction)
    ELSE TradeCalculator_calc_pips(entry, price, pip_size, direction)

PipValueUsd(impl, pip_size, contract_size, quote_usd, quote_to_usd_rate) ==
    IF impl = "trade_tracker"
    THEN pip_value_usd(pip_size, contract_size, quote_usd, quote_to_usd_rate)
    ELSE TradeCalculator_pip_value_usd(pip_size, contract_size, quote_usd,
                                       quote_to_usd_rate)

UsdFromPips(impl, pips, pip_value_per_lot, lots) ==
    IF impl = "trade_tracker"
    THEN usd_from_pips(pips, pip_value_per_lot, lots)
    ELSE TradeCalculator_usd_from_pips(pips, pip_value_per_lot, lots)

PriceFromUsdTarget(impl, entry, direction, usd_target, pip_size, contract_size, quote_usd, quote_rate, lots) ==
    IF impl = "trade_tracker"
    THEN price_from_usd_target(entry, direction, usd_target, pip_size,
                               contract_size, quote_usd, quote_rate, lots)
    ELSE TradeCalculator_price_from_usd_target(entry, direction, usd_target,
                                               pip_size, contract_size,
                                               quote_usd, quote_rate, lots)

\* calculate: the pip value, the pips from the entry to the exit price, and
\* their value in dollars
RealizedUsd(impl, c) ==
    LET pip_val == PipValueUsd(impl, c.pip_size, c.contract_size, c.quote_usd,
                               c.quote_to_usd_rate)
        realized_pips == CalcPips(impl, c.entry, c.price, c.pip_size, c.direction)
    IN  IF pip_val.raised THEN pip_val
        ELSE IF realized_pips.raised THEN realized_pips
        ELSE Returns([pips |-> realized_pips.value,
                      pip_value |-> pip_val.value,
                      usd |-> UsdFromPips(impl, realized_pips.value,
                                          pip_val.value, c.lots)])

\* usd_from_pips(calc_pips(entry, price_from_usd_target(...), pip_size, direction),
\*               pip_value_usd(...), lots); a None price is no operand of the
\* subtraction
RoundTrip(impl, c) ==
    LET price == PriceFromUsdTarget(impl, c.entry, c.direction, c.usd_target,
                                    c.pip_size, c.contract_size, c.quote_usd,
                                    c.quote_to_usd_rate, c.lots)
        pips == CalcPips(impl, c.entry, price.value, c.pip_size, c.direction)
        pip_val == PipValueUsd(impl, c.pip_size, c.contract_size, c.quote_usd,
                               c.quote_to_usd_rate)
    IN  IF price.raised THEN price
        ELSE IF IsNone(price.value) THEN Raises("TypeError")
        ELSE IF pips.raised THEN pips
        ELSE IF pip_val.raised THEN pip_val
        ELSE Returns(UsdFromPips(impl, pips.value, pip_val.value, c.lots))

Implementations == {"trade_tracker", "TradeCalculator"}

Applied(impl, fn, out) ==
    calc' = [stage |-> "out", impl |-> impl, fn |-> fn, out |-> out] @@ calc

CalcFrame ==
    UNCHANGED <<trades, seq, total_changes, cache, now, nops, last,
                added_ids, stored, thr, wr, app>>

ApplyPipValueUsd ==
    /\ calc.stage = "in"
    /\ Applied("trade_tracker", "pip_value_usd",
               pip_value_usd(calc.pip_size, calc.contract_size,
                             calc.quote_usd, calc.quote_to_usd_rate))
    /\ CalcFrame

ApplyCalculatorPipValueUsd ==
    /\ calc.stage = "in"
    /\ Applied("TradeCalculator", "pip_value_usd",
               TradeCalculator_pip_value_usd(calc.pip_size, calc.contract_size,
                                             calc.quote_usd, calc.quote_to_usd_rate))
    /\ CalcFrame

InitCalc ==
    /\ trades = {}
    /\ seq = 0
    /\ total_changes = 0
    /\ cache = << >>
    /\ now = 0
    /\ nops = 0
    /\ last = NoCall
    /\ added_ids = << >>
    /\ stored = << >>
    /\ thr = IdleThreads
    /\ wr = IdleWriter
    /\ calc \in CalcInputs \cup TradeInputs
    /\ app = NoApp

\* the functions that take prices apply to the inputs that carry prices
HasPrices == calc.stage = "in" /\ "entry" \in DOMAIN calc

ApplyCalcPips ==
    /\ HasPrices
    /\ \E impl \in Implementations :
          Applied(impl, "calc_pips",
                  CalcPips(impl, calc.entry, calc.price, calc.pip_size,
                           calc.direction))
    /\ CalcFrame

ApplyPriceFromUsdTarget ==
    /\ HasPrices
    /\ \E impl \in Implementations :
          Applied(impl, "price_from_usd_target",
                  PriceFromUsdTarget(impl, calc.entry, calc.direction,
                                     calc.usd_target, calc.pip_size,
                                     calc.contract_size, calc.quote_usd,
                                     calc.quote_to_usd_rate, calc.lots))
    /\ CalcFrame

ApplyRealizedUsd ==
    /\ HasPrices
    /\ \E impl \in Implementations :
          Applied(impl, "realized_usd", RealizedUsd(impl, calc))
    /\ CalcFrame

ApplyRoundTrip ==
    /\ HasPrices
    /\ \E impl \in Implementations :
          Applied(impl, "round_trip", RoundTrip(impl, calc))
    /\ CalcFrame

NextCalc ==
    \/ ApplyPipValueUsd
    \/ ApplyCalculatorPipValueUsd
    \/ ApplyCalcPips
    \/ ApplyPriceFromUsdTarget
    \/ ApplyRealizedUsd
    \/ ApplyRoundTrip

SpecCalc == InitCalc /\ [][NextCalc]_vars

\* ------------------------------------------------------------ application
\* the text of an entry field: empty, text that is no number, or the text of
\* a number, which float() turns into that number
Blank == [text |-> ""]

Junk == [text |-> "abc"]

IsNumber(v) == "n" \in DOMAIN v

\* x or y
Or(x, y) == IF Truthy(x) THEN x ELSE y

\* TradeTrackerApp._validate_float(value, field_name, required, default)
validate_float(value, required, default) ==
    IF value = Blank
    THEN IF required THEN Raises("ValueError") ELSE Returns(default)
    ELSE IF IsNumber(value) THEN Returns(value) ELSE Raises("ValueError")

\* trade_tracker.py: TradeTrackerApp._float_or_error(v, name)
float_or_error(v) == IF IsNumber(v) THEN v ELSE Absent

\* trade_tracker.py: TradeTrackerApp._float_or_none(v)
float_or_none(v) == IF v # Blank /\ IsNumber(v) THEN v ELSE Absent

\* what the user has typed and chosen when a button is pressed: a gold
\* position entered at 1900 with the contract size and rate that
\* on_instrument_change fills in, and its variations in one field
BaseForm ==
    [instrument |-> "XAUUSD", direction |-> "Long", entry |-> Rat(1900, 1),
     stop |-> Blank, tp |-> Blank, exit |-> Blank, lots |-> Rat(1, 1),
     contract |-> Rat(100, 1), quote_rate |-> Rat(1, 1)]

Forms ==
    {BaseForm}
    \cup {[BaseForm EXCEPT !.stop = v] : v \in {Zero, Rat(1900, 1)}}
    \cup {[BaseForm EXCEPT !.tp = v] : v \in {Rat(1900, 1)}}
    \cup {[BaseForm EXCEPT !.exit = v] : v \in {Rat(1895, 1), Rat(1910, 1)}}
    \cup {[BaseForm EXCEPT !.stop = Rat(1895, 1), !.tp = Rat(1910, 1),
                           !.exit = Rat(1910, 1), !.direction = "Short"]}
    \cup {[BaseForm EXCEPT !.entry = Blank], [BaseForm EXCEPT !.lots = Junk],
          [BaseForm EXCEPT !.contract = Blank]}

\* trade_tracker_1.py: save_trade from its first line to trade_data
trade_data(f) ==
    LET info == INSTRUMENTS[f.instrument]
        entry == validate_float(f.entry, TRUE, Absent)
        stop == validate_float(f.stop, FALSE, Absent)
        tp == validate_float(f.tp, FALSE, Absent)
        exit_price == validate_float(f.exit, FALSE, Absent)
        lots == validate_float(f.lots, TRUE, Absent)
        contract_size == validate_float(f.contract, TRUE, info.contract)
        quote_rate == validate_float(f.quote_rate, ~info.quote_usd, Rat(1, 1))
        pip_value == TradeCalculator_pip_value_usd(info.pip, contract_size.value,
                                                   info.quote_usd, quote_rate.value)
        Pips(price) ==
            IF Truthy(price)
            THEN TradeCalculator_calc_pips(entry.value, price, info.pip,
                                           f.direction).value
            ELSE Absent
        Usd(pips) ==
            IF Truthy(pips)
            THEN TradeCalculator_usd_from_pips(pips, pip_value.value, lots.value)
            ELSE Absent
    IN  IF \E o \in {entry, stop, tp, exit_price, lots, contract_size, quote_rate} :
              o.raised
        THEN Raises("ValueError")
        ELSE IF pip_value.raised THEN pip_value
        ELSE Returns([instrument |-> f.instrument, direction |-> f.direction,
                      entry |-> entry.value, stop |-> stop.value,
                      target |-> tp.value, exit |-> exit_price.value,
                      lots |-> lots.value,
                      contract_size |-> contract_size.value,
                      pip_size |-> info.pip, quote_to_usd |-> quote_rate.value,
                      pips_to_sl |-> Pips(stop.value),
                      usd_to_sl |-> Usd(Pips(stop.value)),
                      pips_to_tp |-> Pips(tp.value),
                      usd_to_tp |-> Usd(Pips(tp.value)),
                      realized_pips |-> Pips(exit_price.value),
                      realized_usd |-> Usd(Pips(exit_price.value))])

\* round(x, 4), ties to the even neighbour
round4(x) ==
    LET scaled == x.n * 10000
        q == scaled \div x.d
        r == scaled % x.d
    IN  IF 2 * r < x.d \/ (2 * r = x.d /\ q % 2 = 0)
        THEN Rat(q, 10000)
        ELSE Rat(q + 1, 10000)

\* the attribute timezone of the class datetime that trade_tracker.py
\* imports by `from datetime import datetime`: the class has none
datetime_timezone == Raises("AttributeError")

\* the columns of trades.csv, the free-text notes left out
fieldnames ==
    {"timestamp", "instrument", "direction", "entry", "stop", "target", "exit",
     "lots", "contract_size", "pip_size", "quote_to_usd", "pips_to_sl",
     "usd_to_sl", "pips_to_tp", "usd_to_tp", "realized_pips", "realized_usd"}

\* csv.DictWriter.writerow(row): a column the row has no key for is written
\* empty
writerow(row) == [k \in fieldnames |-> IF k \in DOMAIN row THEN row[k] ELSE Blank]

\* trade_tracker.py: save_trade up to the dictionary row; Returns(Absent) is
\* the return after the error dialog
csv_row(f) ==
    LET info == INSTRUMENTS[f.instrument]
        entry == float_or_error(f.entry)
        stop == float_or_none(f.stop)
        tp == float_or_none(f.tp)
        exit_price == float_or_none(f.exit)
        lots == float_or_error(f.lots)
        contract_override == IF f.contract # Blank THEN f.contract ELSE info.contract
        quote_rate == Or(float_or_none(f.quote_rate), Rat(1, 1))
        pip_val == pip_value_usd(info.pip, contract_override, info.quote_usd,
                                 quote_rate).value
        Pips(price) ==
            IF ~IsNone(price)
            THEN calc_pips(entry, price, info.pip, f.direction).value
            ELSE Absent
        Usd(pips) ==
            IF ~IsNone(pips) THEN usd_from_pips(pips, pip_val, lots) ELSE Absent
        Cell(v) == IF ~IsNone(v) THEN v ELSE Blank
        Rounded(v) == IF ~IsNone(v) THEN round4(v) ELSE Blank
    IN  IF IsNone(entry) \/ IsNone(lots) THEN Returns(Absent)
        ELSE IF f.contract # Blank /\ ~IsNumber(f.contract) THEN Raises("ValueError")
        ELSE IF datetime_timezone.raised THEN datetime_timezone
        ELSE Returns([timestamp |-> now, direction |-> f.direction,
                      entry |-> entry, stop |-> Cell(stop), target |-> Cell(tp),
                      exit |-> Cell(exit_price), lots |-> lots,
                      contract_size |-> contract_override,
                      pip_size |-> info.pip, quote_to_usd |-> quote_rate,
                      pips_to_sl |-> Rounded(Pips(stop)),
                      usd_to_sl |-> Rounded(Usd(Pips(stop))),
                      pips_to_tp |-> Rounded(Pips(tp)),
                      usd_to_tp |-> Rounded(Usd(Pips(tp))),
                      realized_pips |-> Rounded(Pips(exit_price)),
                      realized_usd |-> Rounded(Usd(Pips(exit_price)))])

\* the derived values a calculation or a save works out
DerivedFields ==
    {"pips_to_sl", "usd_to_sl", "pips_to_tp", "usd_to_tp", "realized_pips",
     "realized_usd"}

\* trade_tracker_1.py: calculate from its first line to the results it shows
calculate(f) ==
    LET info == INSTRUMENTS[f.instrument]
        entry == validate_float(f.entry, TRUE, Absent)
        stop == validate_float(f.stop, FALSE, Absent)
        tp == validate_float(f.tp, FALSE, Absent)
        exit_price == validate_float(f.exit, FALSE, Absent)
        lots == validate_float(f.lots, TRUE, Absent)
        contract_size == validate_float(f.contract, TRUE, info.contract)
        quote_rate == validate_float(f.quote_rate, ~info.quote_usd, Rat(1, 1))
        pip_value == TradeCalculator_pip_value_usd(info.pip, contract_size.value,
                                                   info.quote_usd, quote_rate.value)
        Pips(price) ==
            IF ~IsNone(price)
            THEN TradeCalculator_calc_pips(entry.value, price, info.pip,
                                           f.direction).value
            ELSE Absent
        Usd(pips) ==
            IF ~IsNone(pips)
            THEN TradeCalculator_usd_from_pips(pips, pip_value.value, lots.value)
            ELSE Absent
    IN  IF \E o \in {entry, stop, tp, exit_price, lots, contract_size, quote_rate} :
              o.raised
        THEN Raises("ValueError")
        ELSE IF pip_value.raised THEN pip_value
        ELSE Returns([contract_size |-> contract_size.value,
                      pip_value |-> pip_value.value,
                      pips_to_sl |-> Pips(stop.value),
                      usd_to_sl |-> Usd(Pips(stop.value)),
                      pips_to_tp |-> Pips(tp.value),
                      usd_to_tp |-> Usd(Pips(tp.value)),
                      realized_pips |-> Pips(exit_price.value),
                      realized_usd |-> Usd(Pips(exit_price.value))])

\* trade_tracker.py: calculate from its first line to the realized values;
\* an input it reports and returns on gives no results
csv_calculate(f) ==
    LET info == INSTRUMENTS[f.instrument]
        contract_override == IF f.contract # Blank THEN f.contract ELSE info.contract
        entry == float_or_error(f.entry)
        stop == float_or_none(f.stop)
        tp == float_or_none(f.tp)
        exit_price == float_or_none(f.exit)
        lots == float_or_error(f.lots)
        quote_rate == Or(float_or_none(f.quote_rate), Rat(1, 1))
        pip_val == pip_value_usd(info.pip, contract_override, info.quote_usd,
                                 quote_rate)
        Pips(price) ==
            IF ~IsNone(price)
            THEN calc_pips(entry, price, info.pip, f.direction).value
            ELSE Absent
        Usd(pips) ==
            IF ~IsNone(pips) THEN usd_from_pips(pips, pip_val.value, lots) ELSE Absent
    IN  IF f.contract # Blank /\ ~IsNumber(f.contract) THEN Returns(Absent)
        ELSE IF IsNone(entry) \/ IsNone(lots) THEN Returns(Absent)
        ELSE IF pip_val.raised THEN pip_val
        ELSE Returns([contract_size |-> contract_override,
                      pip_value |-> pip_val.value,
                      pips_to_sl |-> Pips(stop),
                      usd_to_sl |-> Usd(Pips(stop)),
                      pips_to_tp |-> Pips(tp),
                      usd_to_tp |-> Usd(Pips(tp)),
                      realized_pips |-> Pips(exit_price),
                      realized_usd |-> Usd(Pips(exit_price))])

RECURSIVE SumSeq(_)
SumSeq(s) == IF s = << >> THEN Zero ELSE RatAdd(Head(s), SumSeq(Tail(s)))

\* Series.mean(): nan for an empty selection
Mean(s) == IF s = << >> THEN NaN ELSE RatDiv(SumSeq(s), Rat(Len(s), 1))

Positive(v) == RatLess(Zero, v)

Negative(v) == RatLess(v, Zero)

\* create_dashboard: "$0.00", "0%", "$0.00", "$0.00"
ZeroCards ==
    [total_profit |-> Zero, win_rate |-> Zero, avg_win |-> Zero, avg_loss |-> Zero]

\* update_dashboard(trades): the four numbers it puts on the cards (the
\* formatting to a text, and the absolute value the loss card prints, left
\* out), or the cards as they were when it returns at once
update_dashboard(data, cards) ==
    IF data = << >>
    THEN cards
    ELSE LET realized_usd ==
                 [i \in DOMAIN data |->
                     IF IsNone(data[i].realized_usd) THEN Zero
                     ELSE data[i].realized_usd]
             total_profit == SumSeq(realized_usd)
             winning_trades == Len(SelectSeq(realized_usd, Positive))
             total_trades == Len(realized_usd)
             win_rate == IF total_trades > 0
                         THEN Rat(winning_trades, total_trades) ELSE Zero
             avg_win == Or(Mean(SelectSeq(realized_usd, Positive)), Zero)
             avg_loss == Or(Mean(SelectSeq(realized_usd, Negative)), Zero)
         IN  [total_profit |-> total_profit, win_rate |-> win_rate,
              avg_win |-> avg_win, avg_loss |-> avg_loss]

\* delete_trade for each id of the selection
RECURSIVE delete_each(_, _)
delete_each(tr, trade_ids) ==
    IF trade_ids = {} THEN tr
    ELSE LET trade_id == CHOOSE i \in trade_ids : TRUE
         IN  delete_each(DeleteWhereId(tr, trade_id), trade_ids \ {trade_id})

\* get_trades(limit=200) in the loading thread
LoadLimit == 200

AppFrame == UNCHANGED <<now, nops, last, added_ids, stored, thr, wr, calc>>

\* the press clears the query cache
StoreFrameClearing == UNCHANGED <<trades, seq, total_changes>> /\ cache' = clear_cache

StoreFrame == UNCHANGED <<trades, seq, total_changes, cache>>

\* load_trades_async: one more loading thread is started; beyond MaxLoads
\* waiting threads a further one adds nothing a waiting one will not do
Started(pending) == Min(pending + 1, MaxLoads)

\* the Save Trade button of trade_tracker_1.py
SaveTrade ==
    \E f \in Forms :
        LET data == trade_data(f)
            trade_id == Lastrowid(trades, seq)
            rec == [id |-> trade_id, timestamp |-> now] @@ data.value
        IN  /\ app.stage = "trade_tracker_1"
            /\ seq < MaxSaves
            /\ AppFrame
            /\ IF data.raised
               THEN /\ StoreFrame
                    /\ app' = [app EXCEPT !.done = [op |-> "save_trade",
                                                    form |-> f, out |-> data]]
               ELSE /\ trades' = trades \cup {rec}
                    /\ seq' = trade_id
                    /\ total_changes' = total_changes + 1
                    /\ cache' = clear_cache
                    /\ app' = [app EXCEPT !.pending = Started(@),
                                          !.done = [op |-> "save_trade",
                                                    form |-> f,
                                                    out |-> Returns(rec)]]

\* the thread of load_trades_async: get_trades, update_trade_table,
\* update_dashboard
Load ==
    LET cache_key == CacheKey(LoadLimit, NoFilters)
        hit == /\ cache_key \in DOMAIN cache
               /\ Fresh(cache[cache_key], now)
        Shown(data) ==
            [app EXCEPT !.pending = @ - 1,
                        !.table = {data[i].id : i \in DOMAIN data},
                        !.cards = update_dashboard(data, @),
                        !.done = [op |-> "load", trades |-> data]]
    IN  /\ app.stage = "trade_tracker_1"
        /\ app.pending > 0
        /\ AppFrame
        /\ UNCHANGED <<trades, seq, total_changes>>
        /\ IF hit
           THEN /\ cache' = cache
                /\ app' = Shown(cache[cache_key].data)
           ELSE \E results \in Select(trades, LoadLimit, NoFilters) :
                   /\ cache' = (cache_key :> [timestamp |-> now, data |-> results])
                                  @@ cache
                   /\ app' = Shown(results)

\* the Refresh button
Refresh ==
    /\ app.stage = "trade_tracker_1"
    /\ app' = [app EXCEPT !.pending = Started(@), !.done = [op |-> "refresh"]]
    /\ AppFrame
    /\ StoreFrame

\* Delete Trade on the rows selected in the table
DeleteSelected ==
    /\ app.stage = "trade_tracker_1"
    /\ AppFrame
    /\ UNCHANGED seq
    /\ \E selected \in SUBSET app.table, confirm \in BOOLEAN :
          LET remaining == delete_each(trades, selected)
              done == [op |-> "delete_selected", selected |-> selected,
                       confirm |-> confirm]
          IN  IF selected # {} /\ confirm
              THEN /\ trades' = remaining
                   /\ total_changes' = total_changes
                                         + Cardinality(trades) - Cardinality(remaining)
                   /\ cache' = clear_cache
                   /\ app' = [app EXCEPT !.pending = Started(@), !.done = done]
              ELSE /\ UNCHANGED <<trades, total_changes, cache>>
                   /\ app' = [app EXCEPT !.done = done]

\* the Save Trade button of trade_tracker.py
CsvSaveTrade ==
    \E f \in Forms :
        LET row == csv_row(f)
            written == ~row.raised /\ ~IsNone(row.value)
        IN  /\ app.stage = "trade_tracker"
            /\ app' = [app EXCEPT
                         !.csv = IF written THEN Append(@, writerow(row.value)) ELSE @,
                         !.done = [op |-> "csv_save_trade", form |-> f,
                                   out |-> row, rows_before |-> Len(app.csv)]]
            /\ AppFrame
            /\ StoreFrame

\* TradeTrackerApp.__init__ of one of the two programs.  trade_tracker_1.py:
\* an empty table, the cards at zero, and the first loading thread started;
\* trade_tracker.py: trades.csv with its header only
InitApp ==
    /\ trades = {}
    /\ seq = 0
    /\ total_changes = 0
    /\ cache = << >>
    /\ now = 0
    /\ nops = 0
    /\ last = NoCall
    /\ added_ids = << >>
    /\ stored = << >>
    /\ thr = IdleThreads
    /\ wr = IdleWriter
    /\ calc = NoCalc
    /\ app \in {[stage |-> "trade_tracker_1", pending |-> 1, table |-> {},
                 cards |-> ZeroCards, done |-> [op |-> "none"]],
                [stage |-> "trade_tracker", csv |-> << >>,
                 done |-> [op |-> "none"]]}

NextApp == SaveTrade \/ Load \/ Refresh \/ DeleteSelected \/ CsvSaveTrade

SpecApp == InitApp /\ [][NextApp]_vars

\* ---------------------------------------------------------------------------
\* The input panel: the instrument box, the contract size and quote rate
\* fields that on_instrument_change and clear_inputs write, and the buttons.
\* The user chooses instruments and types prices and lots, and never types in
\* the contract size or the quote rate field.
\* ---------------------------------------------------------------------------

\* "150" if inst == "USDJPY" else "190" if inst == "GBPJPY" else "1"
default_quote_rate(inst) ==
    IF inst = "USDJPY" THEN Rat(150, 1)
    ELSE IF inst = "GBPJPY" THEN Rat(190, 1) ELSE Rat(1, 1)

\* trade_tracker_1.py: on_instrument_change
on_instrument_change(a) ==
    LET info == INSTRUMENTS[a.instrument_var]
    IN  [a EXCEPT !.contract_var = IF @ = Blank THEN info.contract ELSE @,
                  !.quote_rate_var = IF info.quote_usd THEN Blank
                                     ELSE IF @ = Blank
                                          THEN default_quote_rate(a.instrument_var)
                                          ELSE @]

\* trade_tracker.py: on_instrument_change
csv_on_instrument_change(a) ==
    LET info == INSTRUMENTS[a.instrument_var]
        default_contract == info.contract
    IN  [a EXCEPT !.contract_var = IF @ = Blank THEN default_contract ELSE @,
                  !.quote_rate_var = IF info.quote_usd THEN Blank
                                     ELSE IF @ = Blank
                                          THEN default_quote_rate(a.instrument_var)
                                          ELSE @]

\* trade_tracker_1.py: clear_inputs
clear_inputs(a) == [a EXCEPT !.contract_var = Blank, !.quote_rate_var = Blank]

\* trade_tracker.py: clear_inputs
csv_clear_inputs(a) == [a EXCEPT !.contract_var = Blank, !.quote_rate_var = Blank]

\* what the user types before a press: a position whose target is its entry
\* price, one with stop, target and exit, no entry price, lots not a number
PriceFields ==
    {[entry |-> Rat(1900, 1), stop |-> Blank, tp |-> Rat(1900, 1),
      exit |-> Blank, lots |-> Rat(1, 1)],
     [entry |-> Rat(1900, 1), stop |-> Rat(1895, 1), tp |-> Rat(1910, 1),
      exit |-> Rat(1910, 1), lots |-> Rat(1, 1)],
     [entry |-> Blank, stop |-> Blank, tp |-> Blank, exit |-> Blank,
      lots |-> Rat(1, 1)],
     [entry |-> Rat(1900, 1), stop |-> Blank, tp |-> Blank, exit |-> Blank,
      lots |-> Junk]}

\* the fields a button press reads
PanelForm(a, p) ==
    [instrument |-> a.instrument_var, direction |-> "Long", entry |-> p.entry,
     stop |-> p.stop, tp |-> p.tp, exit |-> p.exit, lots |-> p.lots,
     contract |-> a.contract_var, quote_rate |-> a.quote_rate_var]

\* <<ComboboxSelected>> of trade_tracker_1.py
InstrumentChange ==
    \E inst \in TradeInstruments :
        /\ app.stage = "trade_tracker_1"
        /\ app' = [on_instrument_change([app EXCEPT !.instrument_var = inst])
                     EXCEPT !.done = [op |-> "on_instrument_change"]]
        /\ AppFrame
        /\ StoreFrame

\* the Clear button of trade_tracker_1.py
ClearInputs ==
    /\ app.stage = "trade_tracker_1"
    /\ app' = [clear_inputs(app) EXCEPT !.done = [op |-> "clear_inputs"]]
    /\ AppFrame
    /\ StoreFrame

\* the Calculate button of trade_tracker_1.py
Calculate ==
    \E p \in PriceFields :
        LET f == PanelForm(app, p)
        IN  /\ app.stage = "trade_tracker_1"
            /\ app' = [app EXCEPT !.done = [op |-> "calculate", form |-> f,
                                            out |-> calculate(f),
                                            before |-> Before]]
            /\ AppFrame
            /\ StoreFrame

\* the Save Trade button of trade_tracker_1.py, pressed on the panel
PanelSaveTrade ==
    \E p \in PriceFields :
        LET f == PanelForm(app, p)
            data == trade_data(f)
            trade_id == Lastrowid(trades, seq)
            rec == [id |-> trade_id, timestamp |-> now] @@ data.value
        IN  /\ app.stage = "trade_tracker_1"
            /\ AppFrame
            /\ IF data.raised
               THEN /\ StoreFrame
                    /\ app' = [app EXCEPT !.done = [op |-> "save_trade",
                                                    form |-> f, out |-> data,
                                                    before |-> Before]]
               ELSE /\ seq < MaxPanelSaves
                    /\ trades' = trades \cup {rec}
                    /\ seq' = trade_id
                    /\ total_changes' = total_changes + 1
                    /\ cache' = clear_cache
                    /\ app' = [clear_inputs(app) EXCEPT
                                 !.pending = Started(@),
                                 !.done = [op |-> "save_trade", form |-> f,
                                           out |-> Returns(rec),
                                           before |-> Before]]

\* <<ComboboxSelected>> of trade_tracker.py
CsvInstrumentChange ==
    \E inst \in TradeInstruments :
        /\ app.stage = "trade_tracker"
        /\ app' = [csv_on_instrument_change([app EXCEPT !.instrument_var = inst])
                     EXCEPT !.done = [op |-> "on_instrument_change"]]
        /\ AppFrame
        /\ StoreFrame

\* the Clear Inputs button of trade_tracker.py
CsvClearInputs ==
    /\ app.stage = "trade_tracker"
    /\ app' = [csv_clear_inputs(app) EXCEPT !.done = [op |-> "clear_inputs"]]
    /\ AppFrame
    /\ StoreFrame

\* the Calculate button of trade_tracker.py
CsvCalculate ==
    \E p \in PriceFields :
        LET f == PanelForm(app, p)
        IN  /\ app.stage = "trade_tracker"
            /\ app' = [app EXCEPT !.done = [op |-> "csv_calculate", form |-> f,
                                            out |-> csv_calculate(f)]]
            /\ AppFrame
            /\ StoreFrame

\* the Save Trade button of trade_tracker.py, pressed on the panel
CsvPanelSaveTrade ==
    \E p \in PriceFields :
        LET f == PanelForm(app, p)
            row == csv_row(f)
            written == ~row.raised /\ ~IsNone(row.value)
        IN  /\ app.stage = "trade_tracker"
            /\ app' = [app EXCEPT
                         !.csv = IF written THEN Append(@, writerow(row.value)) ELSE @,
                         !.done = [op |-> "csv_save_trade", form |-> f,
                                   out |-> row, rows_before |-> Len(app.csv)]]
            /\ AppFrame
            /\ StoreFrame

\* TradeTrackerApp.__init__ of one of the two programs, with the panel as
\* create_input_panel / create_widgets leave it: XAUUSD chosen, the two
\* fields empty, then on_instrument_change
InitPanel ==
    /\ trades = {}
    /\ seq = 0
    /\ total_changes = 0
    /\ cache = << >>
    /\ now = 0
    /\ nops = 0
    /\ last = NoCall
    /\ added_ids = << >>
    /\ stored = << >>
    /\ thr = IdleThreads
    /\ wr = IdleWriter
    /\ calc = NoCalc
    /\ app \in {on_instrument_change(
                   [stage |-> "trade_tracker_1", instrument_var |-> "XAUUSD",
                    contract_var |-> Blank, quote_rate_var |-> Blank,
                    pending |-> 1, table |-> {}, cards |-> ZeroCards,
                    done |-> [op |-> "none"]]),
                csv_on_instrument_change(
                   [stage |-> "trade_tracker", instrument_var |-> "XAUUSD",
                    contract_var |-> Blank, quote_rate_var |-> Blank,
                    csv |-> << >>, done |-> [op |-> "none"]])}

NextPanel ==
    \/ InstrumentChange \/ ClearInputs \/ Calculate \/ PanelSaveTrade \/ Load
    \/ CsvInstrumentChange \/ CsvClearInputs \/ CsvCalculate \/ CsvPanelSaveTrade

SpecPanel == InitPanel /\ [][NextPanel]_vars

\* ------------------------------------------------------------- properties
\* r satisfies every filter equality whose value is not None
Matches(r, filters) ==
    \/ filters.none
    \/ \A i \in DOMAIN filters.items :
          filters.items[i][2] # None => Column(r, filters.items[i][1]) = filters.items[i][2]

Matching(tr, filters) == {r \in tr : Matches(r, filters)}

\* r is among the `limit` most recent matching records whichever way equal
\* timestamps are ordered
WithinLimit(r, tr, limit, filters) ==
    Cardinality({q \in Matching(tr, filters) : q.timestamp >= r.timestamp}) <= limit

\* C1: a get_trades that directly follows an add_trade returns the new record
\* when the record matches the filters and falls within the limit, also when
\* the same query was cached just before the add.
C1_AddThenQuery ==
    (/\ last.op = "get"
     /\ last.ok
     /\ last.after_add.yes
     /\ Matches(last.after_add.rec, last.filters)
     /\ WithinLimit(last.after_add.rec, trades, last.limit, last.filters))
    => last.after_add.rec \in Range(last.ret)

C1_Witness ==
    /\ last.op = "get"
    /\ last.ok
    /\ last.after_add.yes
    /\ last.after_add.was_cached
    /\ Conditions(last.filters) # {}
    /\ last.after_add.rec \in Range(last.ret)

\* C2: delete_trade returns true exactly when a record with that id existed
\* and this call removed it.
C2_DeleteReturnsRemoved ==
    (last.op = "delete" /\ last.ok)
    => (last.ret <=> \E r \in last.before.trades : r.id = last.id)

\* C3: a get_trades whose (limit, filters) was stored less than 5 minutes
\* before, with no add_trade or delete_trade since, returns the stored result
\* and does not read the database.
C3_FreshHit ==
    (/\ last.op = "get"
     /\ CacheKey(last.limit, last.filters) \in DOMAIN last.stored
     /\ last.at - last.stored[CacheKey(last.limit, last.filters)].timestamp < 5)
    => /\ last.ok
       /\ ~last.db_read
       /\ last.ret = last.stored[CacheKey(last.limit, last.filters)].data

C3_Witness ==
    /\ last.op = "get"
    /\ last.ok
    /\ ~last.db_read
    /\ last.ret # << >>
    /\ last.at > last.stored[CacheKey(last.limit, last.filters)].timestamp

\* C4: every get_trades result is a result the query gives on the ledger as
\* it is at that moment, without a cache.
C4_CacheTransparent ==
    (last.op = "get" /\ last.ok)
    => last.ret \in Select(trades, last.limit, last.filters)

C4_Witness ==
    /\ last.op = "get"
    /\ last.ok
    /\ ~last.db_read
    /\ total_changes > 0
    /\ Matching(trades, last.filters) # trades

\* C5: with get_trades running in threads beside add_trade and delete_trade,
\* once no write is in progress the cache holds no entry computed from a
\* ledger older than the last completed write.
C5_NoStaleEntry ==
    wr.pc = "idle"
    => \A k \in DOMAIN cache : cache[k].data \in Select(trades, k[2], k[3])

\* C6: get_trades returns records that all match the filters, most recent
\* first, at most `limit` of them, and none it leaves out is more recent than
\* one it returns.
C6_QueryResult ==
    (last.op = "get" /\ last.ok)
    => LET M == Matching(trades, last.filters)
           ret == last.ret
       IN  /\ Range(ret) \subseteq M
           /\ Cardinality(Range(ret)) = Len(ret)
           /\ Len(ret) = Min(last.limit, Cardinality(M))
           /\ \A i, j \in DOMAIN ret : i < j => ret[i].timestamp >= ret[j].timestamp
           /\ \A r \in M \ Range(ret), q \in Range(ret) : r.timestamp <= q.timestamp

C6_Witness ==
    /\ last.op = "get"
    /\ last.ok
    /\ Len(last.ret) = last.limit
    /\ Cardinality(Matching(trades, last.filters)) > last.limit
    /\ \E i \in DOMAIN last.filters.items : last.filters.items[i][2] = None
    /\ \E i \in DOMAIN last.filters.items : last.filters.items[i][2] # None

\* C7: an add_trade or delete_trade that raises leaves the ledger and the
\* cache exactly as they were before the call.
C7_FailedWriteNoEffect ==
    (last.op \in {"add", "delete"} /\ ~last.ok)
    => /\ trades = last.before.trades
       /\ cache = last.before.cache

\* C8: delete_trade removes nothing but the record with the given id, and
\* leaves the ledger as it was when no record has that id.
C8_DeleteFrame ==
    last.op = "delete"
    => /\ trades \subseteq last.before.trades
       /\ \A r \in last.before.trades : r.id # last.id => r \in trades
       /\ (\A r \in last.before.trades : r.id # last.id) => trades = last.before.trades

C8_Witness ==
    /\ last.op = "delete"
    /\ last.ok
    /\ trades # {}
    /\ trades # last.before.trades

\* C9: the ids add_trade returns are strictly increasing, whatever was
\* deleted in between.
C9_IdsIncrease ==
    \A i, j \in DOMAIN added_ids : i < j => added_ids[i] < added_ids[j]

C9_Witness ==
    /\ last.op = "add"
    /\ last.ok
    /\ Len(added_ids) >= 2
    /\ \A r \in last.before.trades : r.id < added_ids[Len(added_ids) - 1]

\* C10: pip_value_usd never raises, and for an instrument not quoted in USD
\* with a quote-to-USD rate of 0 it returns pip_size * contract_size, in the
\* module-level function and in TradeCalculator alike.
C10_PipValueZeroRate ==
    (calc.stage = "out" /\ calc.fn = "pip_value_usd")
    => /\ ~calc.out.raised
       /\ (~calc.quote_usd /\ calc.quote_to_usd_rate = Zero)
            => calc.out.value = RatMul(calc.pip_size, calc.contract_size)


\* C11: in the saved record the pips and the dollars derived from the stop,
\* the target and the exit price are present exactly when that price was
\* typed, a typed price of 0 or equal to the entry price included.
C11_DerivedPresentIffSupplied ==
    ( /\ app.stage = "trade_tracker_1"
      /\ app.done.op = "save_trade"
      /\ ~app.done.out.raised )
    => LET f == app.done.form
           rec == app.done.out.value
       IN  /\ rec \in trades
           /\ f.stop # Blank <=> ~IsNone(rec.pips_to_sl)
           /\ f.stop # Blank <=> ~IsNone(rec.usd_to_sl)
           /\ f.tp # Blank <=> ~IsNone(rec.pips_to_tp)
           /\ f.tp # Blank <=> ~IsNone(rec.usd_to_tp)
           /\ f.exit # Blank <=> ~IsNone(rec.realized_pips)
           /\ f.exit # Blank <=> ~IsNone(rec.realized_usd)

\* what the specification gives for the pip value in dollars: the base
\* pip_size * contract_size, divided by the rate only for a quote currency
\* other than the dollar at a rate other than zero
PipValueOf(c) ==
    LET base == RatMul(c.pip_size, c.contract_size)
    IN  IF c.quote_usd \/ c.quote_to_usd_rate = Zero
        THEN base
        ELSE RatDiv(base, c.quote_to_usd_rate)

\* C12: for every direction and entry, a dollar target U other than zero, a
\* lot size other than zero and a pip value other than zero, the dollars of
\* the pips from the entry to price_from_usd_target's price are U again.
C12_TargetRoundTrip ==
    ( /\ calc.stage = "out" /\ calc.fn = "round_trip"
      /\ calc.usd_target # Zero /\ calc.lots # Zero
      /\ PipValueOf(calc) # Zero
      /\ NaN \notin {calc.entry, calc.pip_size} )
    => /\ ~calc.out.raised
       /\ calc.out.value = calc.usd_target

Opposite(direction) == IF direction = "Long" THEN "Short" ELSE "Long"

\* C13: for a pip size other than zero, the pips of a long position are the
\* negation of the pips of a short position between the same two prices.
C13_LongShortAntisymmetric ==
    ( /\ calc.stage = "out" /\ calc.fn = "calc_pips"
      /\ calc.pip_size # Zero )
    => /\ ~calc.out.raised
       /\ CalcPips(calc.impl, calc.entry, calc.price, calc.pip_size,
                   Opposite(calc.direction))
            = Returns(RatNeg(calc.out.value))

\* a long position 500 pips under water: its short counterpart is 500 up
C13_Witness ==
    /\ calc.stage = "out" /\ calc.fn = "calc_pips"
    /\ calc.direction = "Long"
    /\ ~calc.out.raised
    /\ calc.out.value = Rat(-500, 1)

\* C14: calc_pips ends in an invalid-number error, and neither in a number
\* nor in an arithmetic fault, whenever the pip size is zero or one of entry,
\* price and pip size is not a finite number.
C14_InvalidNumberReported ==
    ( /\ calc.stage = "out" /\ calc.fn = "calc_pips"
      /\ (calc.pip_size = Zero \/ NaN \in {calc.entry, calc.price, calc.pip_size}) )
    => \/ calc.out = Returns(Absent)
       \/ calc.out.raised /\ calc.out.error = "ValueError"

\* C15: price_from_usd_target returns None exactly when the pip value or the
\* lot size is zero, and otherwise the entry plus (long) or minus (short)
\* usd_target / (pip value * lots) pips.
C15_TargetPrice ==
    ( calc.stage = "out" /\ calc.fn = "price_from_usd_target" )
    => LET none == PipValueOf(calc) = Zero \/ calc.lots = Zero
           price_diff == RatMul(RatDiv(calc.usd_target,
                                       RatMul(PipValueOf(calc), calc.lots)),
                                calc.pip_size)
       IN  /\ ~calc.out.raised
           /\ IsNone(calc.out.value) <=> none
           /\ ~none => calc.out.value =
                          IF calc.direction = "Long"
                          THEN RatAdd(calc.entry, price_diff)
                          ELSE RatSub(calc.entry, price_diff)

\* the loading thread has shown the records loaded
Loaded == app.stage = "trade_tracker_1" /\ app.done.op = "load"

HasRealizedUsd(r) == ~IsNone(r.realized_usd)

IsWin(r) == HasRealizedUsd(r) /\ Positive(r.realized_usd)

IsLoss(r) == HasRealizedUsd(r) /\ Negative(r.realized_usd)

RealizedUsdOf(rows) == [i \in DOMAIN rows |-> rows[i].realized_usd]

\* C16: the win rate is the number of records with realized dollars above 0
\* over the number of records whose realized dollars are defined; a record
\* without an exit price is not counted in the denominator.
C16_WinRateOverClosedTrades ==
    ( /\ Loaded
      /\ SelectSeq(app.done.trades, HasRealizedUsd) # << >> )
    => app.cards.win_rate =
          Rat(Len(SelectSeq(app.done.trades, IsWin)),
              Len(SelectSeq(app.done.trades, HasRealizedUsd)))

\* C17: the average win is the mean of the positive realized dollars and the
\* average loss the mean of the negative ones, and an average over no record
\* is 0, never nan.
C17_AveragesOfWinsAndLosses ==
    ( Loaded /\ app.done.trades # << >> )
    => LET wins == RealizedUsdOf(SelectSeq(app.done.trades, IsWin))
           losses == RealizedUsdOf(SelectSeq(app.done.trades, IsLoss))
       IN  /\ app.cards.avg_win = IF wins = << >> THEN Zero ELSE Mean(wins)
           /\ app.cards.avg_loss = IF losses = << >> THEN Zero ELSE Mean(losses)

\* C18: the metrics of an empty sequence of records are all 0, so once every
\* record is deleted and the table reloaded the dashboard shows 0 on every
\* card.
C18_EmptyLedgerShowsZeros ==
    ( Loaded /\ app.done.trades = << >> )
    => app.cards = ZeroCards

\* C19: a save of the CSV program with a valid entry and lot size appends
\* exactly one row, which carries the instrument chosen with the direction,
\* the entry, the lots, and the contract size, pip size and rate used.
C19_CsvSaveAppendsRow ==
    ( /\ app.stage = "trade_tracker"
      /\ app.done.op = "csv_save_trade"
      /\ IsNumber(app.done.form.entry)
      /\ IsNumber(app.done.form.lots) )
    => LET f == app.done.form
           info == INSTRUMENTS[f.instrument]
           row == app.csv[Len(app.csv)]
       IN  /\ ~app.done.out.raised
           /\ Len(app.csv) = app.done.rows_before + 1
           /\ row.instrument = f.instrument
           /\ row.direction = f.direction
           /\ row.entry = f.entry
           /\ row.lots = f.lots
           /\ row.contract_size = IF f.contract # Blank THEN f.contract
                                  ELSE info.contract
           /\ row.pip_size = info.pip
           /\ row.quote_to_usd = Or(float_or_none(f.quote_rate), Rat(1, 1))

\* C20: for a quote currency other than the dollar at a rate other than
\* zero, the realized dollars are pips * (pip_size * contract_size / rate) *
\* lots; a long USDJPY lot from 150.00 to 150.50 at rate 150 makes 50 pips
\* at 1000/150 dollars a pip, 1000/3 dollars.
C20_RealizedUsdNonUsdQuote ==
    ( /\ calc.stage = "out" /\ calc.fn = "realized_usd"
      /\ ~calc.quote_usd /\ calc.quote_to_usd_rate # Zero
      /\ calc.pip_size # Zero )
    => /\ ~calc.out.raised
       /\ calc.out.value.usd =
            RatMul(RatMul(calc.out.value.pips,
                          RatDiv(RatMul(calc.pip_size, calc.contract_size),
                                 calc.quote_to_usd_rate)),
                   calc.lots)
       /\ ( /\ calc.instrument = "USDJPY"
            /\ calc.pip_size = Rat(1, 100) /\ calc.contract_size = Rat(100000, 1)
            /\ calc.entry = Rat(150, 1) /\ calc.price = Rat(301, 2)
            /\ calc.direction = "Long" /\ calc.lots = Rat(1, 1)
            /\ calc.quote_to_usd_rate = Rat(150, 1) )
          => /\ calc.out.value.pips = Rat(50, 1)
             /\ calc.out.value.pip_value = Rat(20, 3)
             /\ calc.out.value.usd = Rat(1000, 3)

\* the yen scenario, computed by either implementation
C20_Witness ==
    /\ calc.stage = "out" /\ calc.fn = "realized_usd"
    /\ calc.instrument = "USDJPY"
    /\ calc.pip_size = Rat(1, 100) /\ calc.contract_size = Rat(100000, 1)
    /\ calc.entry = Rat(150, 1) /\ calc.price = Rat(301, 2)
    /\ calc.direction = "Long" /\ calc.lots = Rat(1, 1)
    /\ calc.quote_to_usd_rate = Rat(150, 1)
    /\ ~calc.out.raised
    /\ calc.out.value.usd = Rat(1000, 3)

\* the price has moved against the position
Adverse(c) ==
    \/ c.direction = "Long" /\ RatLess(c.price, c.entry)
    \/ c.direction = "Short" /\ RatLess(c.entry, c.price)

\* C21: a long XAUUSD lot (pip 0.01, contract 100, quoted in dollars) entered
\* at 1900 with the stop at 1895 is -500 pips from the stop at 1 dollar a
\* pip, -500 dollars; in general, for an instrument quoted in dollars, a price
\* that has moved against the position gives negative pips and negative
\* dollars.
C21_AdverseMoveIsNegative ==
    ( /\ calc.stage = "out" /\ calc.fn = "realized_usd"
      /\ calc.quote_usd
      /\ NaN \notin {calc.entry, calc.price, calc.pip_size}
      /\ RatLess(Zero, calc.pip_size) /\ RatLess(Zero, calc.contract_size)
      /\ RatLess(Zero, calc.lots)
      /\ Adverse(calc) )
    => /\ ~calc.out.raised
       /\ RatLess(calc.out.value.pips, Zero)
       /\ RatLess(calc.out.value.usd, Zero)
       /\ ( /\ calc.pip_size = Rat(1, 100) /\ calc.contract_size = Rat(100, 1)
            /\ calc.entry = Rat(1900, 1) /\ calc.price = Rat(1895, 1)
            /\ calc.direction = "Long" /\ calc.lots = Rat(1, 1) )
          => /\ calc.out.value.pips = Rat(-500, 1)
             /\ calc.out.value.pip_value = Rat(1, 1)
             /\ calc.out.value.usd = Rat(-500, 1)

\* the gold scenario, computed by either implementation
C21_Witness ==
    /\ calc.stage = "out" /\ calc.fn = "realized_usd"
    /\ calc.instrument = "XAUUSD"
    /\ calc.pip_size = Rat(1, 100) /\ calc.contract_size = Rat(100, 1)
    /\ calc.entry = Rat(1900, 1) /\ calc.price = Rat(1895, 1)
    /\ calc.direction = "Long" /\ calc.lots = Rat(1, 1)
    /\ ~calc.out.raised
    /\ calc.out.value.usd = Rat(-500, 1)

\* C22: a get_trades call that runs in a thread beside add_trade and
\* delete_trade always completes with a result list; no interleaving of its
\* membership test and cache reads with _clear_cache makes it raise.
C22_GetAlwaysReturns ==
    last.op = "get" => (last.ok /\ "ret" \in DOMAIN last)

\* C25: get_trades never returns a cached result stored 5 minutes or more
\* before the call: it then reads the database again and, when the read
\* returns, replaces the entry with the fresh result and the time of the call.
C25_BoundedFreshness ==
    LET cache_key == CacheKey(last.limit, last.filters)
    IN  (/\ last.op = "get"
         /\ cache_key \in DOMAIN last.stored
         /\ last.at - last.stored[cache_key].timestamp >= 5)
        => /\ last.db_read
           /\ last.ok => /\ last.ret \in Select(trades, last.limit, last.filters)
                         /\ cache_key \in DOMAIN cache
                         /\ cache[cache_key] = [timestamp |-> last.at, data |-> last.ret]

\* an entry stored at least 5 minutes before is replaced and stamped anew
C25_Witness ==
    LET cache_key == CacheKey(last.limit, last.filters)
    IN  /\ last.op = "get"
        /\ last.ok
        /\ cache_key \in DOMAIN last.stored
        /\ last.at - last.stored[cache_key].timestamp >= 5
        /\ cache[cache_key].timestamp = last.at
        /\ cache[cache_key].timestamp # last.stored[cache_key].timestamp

\* a press that got as far as its derived values
Computed(out) == ~out.raised /\ ~IsNone(out.value)

\* C23: for identical inputs, Calculate and Save Trade compute the same
\* derived values in each program: whenever a save has worked its values
\* out, the calculation of the same fields works out the same six pips and
\* dollar values, present or absent alike (the CSV row holds them rounded to
\* four places); and what Calculate can work out, Save Trade can.
C23_PreviewEqualsSaved ==
    /\ (app.done.op = "save_trade" /\ Computed(app.done.out))
       => LET preview == calculate(app.done.form)
          IN  /\ Computed(preview)
              /\ \A k \in DerivedFields :
                    app.done.out.value[k] = preview.value[k]
    /\ (app.done.op = "csv_save_trade" /\ Computed(csv_calculate(app.done.form)))
       => LET preview == csv_calculate(app.done.form)
              Rounded(v) == IF ~IsNone(v) THEN round4(v) ELSE Blank
          IN  /\ Computed(app.done.out)
              /\ \A k \in DerivedFields :
                    app.done.out.value[k] = Rounded(preview.value[k])

\* C24: with no contract size ever typed by the user, the contract size a
\* calculation or a save uses is the catalog contract size of the instrument
\* selected at that moment, after any sequence of instrument changes,
\* calculations, saves and clears.
C24_ContractFollowsInstrument ==
    (/\ app.done.op \in {"calculate", "save_trade", "csv_calculate", "csv_save_trade"}
     /\ Computed(app.done.out))
    => app.done.out.value.contract_size
          = INSTRUMENTS[app.done.form.instrument].contract

\* C26: Calculate, whether it shows results or rejects the input, leaves the
\* ledger and the query cache as they were; a Save Trade rejected for an
\* entry price or lot size that is missing or not a number adds no record
\* and does not clear the cache.
C26_PreviewAndRejectedSaveKeepStore ==
    LET rejected_save == /\ app.done.op = "save_trade"
                         /\ \/ app.done.form.entry \in {Blank, Junk}
                            \/ app.done.form.lots \in {Blank, Junk}
    IN  (app.done.op = "calculate" \/ rejected_save)
        => /\ trades = app.done.before.trades
           /\ cache = app.done.before.cache
           /\ rejected_save => app.done.out = Raises("ValueError")

\* a calculation with results, made while the ledger holds a trade and the
\* cache holds the loaded query
C26_Witness ==
    /\ app.done.op = "calculate"
    /\ Computed(app.done.out)
    /\ trades # {}
    /\ cache # << >>

====
